---- MODULE Spec2Model ----
(***************************************************************************)
(* Model of operator-docker (cmd/operator-docker/cmd.go): the transform of *)
(* a raw configuration into a compose document (prepareConfig), the write  *)
(* of that document to the per-project cache file (writeConfig), and the   *)
(* dispatch of the sub-commands to the external compose command            *)
(* (beforeConfig, runCompose, runCmd and the cli.Command actions).         *)
(*                                                                         *)
(* Go strings that the program concatenates are sequences of tokens, so    *)
(* that "+" is \o and the empty string is <<>>.  A Go map is a function    *)
(* with a finite domain; a map[string]any whose keys the program names is  *)
(* a record with the set of the keys present.                              *)
(***************************************************************************)
EXTENDS Integers, Sequences, FiniteSets, TLC

VARIABLES
    pc,              \* position of the process
    input,           \* the document on stdin, as the JSON codec decodes it
    stdinOK,         \* whether stdin can be read and decoded
    data,            \* the map[string]any the program holds, mutated in place
    ret,             \* what the latest prepareConfig call returned
    ret1,            \* what the first prepareConfig call returned
    fresh,           \* whether the second call was handed its own copy
    inv,             \* the CLI invocation: sub-command, flags, positionals
    projectID,       \* beforeConfig's projectID
    composeCommand,  \* beforeConfig's composeCommand
    composeFilePath, \* the path writeConfig returned
    cacheFile,       \* the file at the cache path of the project
    execArgs,        \* the argument vector handed to exec.Command
    extResult,       \* how the external command ended
    exitCode,        \* exit status of the process, -1 while it runs
    crashed,         \* the process died of a Go panic
    steps,           \* the pipeline steps taken so far, in order
    race             \* two invocations inside writeConfig on one cache path

vars == <<pc, input, stdinOK, data, ret, ret1, fresh, inv, projectID,
          composeCommand, composeFilePath, cacheFile, execArgs, extResult,
          exitCode, crashed, steps, race>>

(***************************************************************************)
(* Bounds of the model.                                                    *)
(***************************************************************************)
MaxArgs == 2        \* longest list of trailing positional arguments
MaxExtExit == 2     \* largest exit code the external command fails with

(***************************************************************************)
(* Values.                                                                 *)
(***************************************************************************)
EmptyMap == [n \in {} |-> 0]

Names == {"web", "db"}

\* A []string that may be nil (octoconfig's Docker.Command).
NilSlice == [isNil |-> TRUE, elems |-> <<>>]
Slice(s) == [isNil |-> FALSE, elems |-> s]

\* The Docker reference of a registry entry (svcRepo.Docker, when not nil).
NoDockerRef ==
    [Registry |-> <<>>, Image |-> <<>>, Tag |-> <<>>,
     Command |-> NilSlice, Entrypoint |-> <<>>]

DockerRefs ==
    { [Registry |-> <<"reg.io">>, Image |-> <<"app">>, Tag |-> <<"1.0">>,
       Command |-> NilSlice, Entrypoint |-> <<>>],
      [Registry |-> <<"reg.io">>, Image |-> <<"app">>, Tag |-> <<"1.0">>,
       Command |-> Slice(<<"run", "now">>), Entrypoint |-> <<"/bin/ep">>],
      [Registry |-> <<>>, Image |-> <<"app">>, Tag |-> <<>>,
       Command |-> Slice(<<>>), Entrypoint |-> <<>>] }

\* A registry entry (repo.Services[name]): its Docker pointer may be nil.
RepoEntries ==
    { [hasDocker |-> FALSE, Docker |-> NoDockerRef] }
    \cup { [hasDocker |-> TRUE, Docker |-> d] : d \in DockerRefs }

\* A value of the services mapping.  A service that is a mapping has the
\* keys in `keys` besides `enabled`, whose JSON value is `enabled`.
NotAMapping ==
    [isMap |-> FALSE, enabled |-> "absent", keys |-> {},
     image |-> <<>>, command |-> <<>>, entrypoint |-> <<>>]

Service(en, ks) ==
    [isMap |-> TRUE, enabled |-> en, keys |-> ks,
     image |-> IF "image" \in ks THEN <<"old/img">> ELSE <<>>,
     command |-> IF "command" \in ks THEN <<"old-cmd">> ELSE <<>>,
     entrypoint |-> IF "entrypoint" \in ks THEN <<"old-ep">> ELSE <<>>]

OldFields == {"image", "command", "entrypoint", "ports"}

ServiceDefs ==
    { Service(en, ks) : en \in {"absent", "true", "false"},
                        ks \in { {}, {"octocompose"}, OldFields,
                                 OldFields \cup {"octocompose"} } }
    \cup { Service("null", {"octocompose"}), Service("string", {}),
           NotAMapping }

FewServiceDefs ==
    { Service("absent", {"octocompose", "command", "entrypoint"}),
      Service("false", {"octocompose"}), Service("string", {}) }

\* The command-vector override under octoctl.command.
NoOverride == [kind |-> "absent", elems |-> <<>>]

\* A document: the top-level keys present and the values the program reads.
Doc(ks, nm, isMap, svcs, repos, over) ==
    [keys |-> ks, name |-> nm, servicesIsMap |-> isMap, services |-> svcs,
     repos |-> repos, octoctl |-> over]

NilDoc == Doc({}, "", FALSE, EmptyMap, EmptyMap, NoOverride)

\* All mappings from a subset of the names to values of a set.
Maps(first, second) ==
    { EmptyMap }
    \cup { [n \in {"web"} |-> a] : a \in first }
    \cup { [n \in {"db"} |-> b] : b \in second }
    \cup { [n \in Names |-> IF n = "web" THEN a ELSE b] :
             a \in first, b \in second }

Perms(S) ==
    { s \in [1..Cardinality(S) -> S] :
        \A i, j \in 1..Cardinality(S) : s[i] = s[j] => i = j }

(***************************************************************************)
(* prepareConfig (cmd.go:47-91).                                           *)
(***************************************************************************)

\* config.Parse(nil, "repos", data, &repo): the registry under the `repos`
\* key; go-orb's Parse fails with ErrNoSuchKey when the key is absent.
ParseRepo(d) ==
    IF "repos" \in d.keys
    THEN [err |-> FALSE, Services |-> d.repos]
    ELSE [err |-> TRUE, Services |-> EmptyMap]

\* delete(data, k) for a top-level key.
DeleteKey(d, k) ==
    [d EXCEPT !.keys = @ \ {k},
              !.repos = IF k = "repos" THEN EmptyMap ELSE @,
              !.octoctl = IF k = "octoctl" THEN NoOverride ELSE @]

\* The keys deleted at cmd.go:54-56.
ControlKeys == {"configs", "octoctl", "repos"}

RECURSIVE DeleteKeys(_, _)
DeleteKeys(d, ks) ==
    IF ks = {} THEN d
    ELSE LET k == CHOOSE x \in ks : TRUE
         IN  DeleteKeys(DeleteKey(d, k), ks \ {k})

\* data["services"].(map[string]any), the comma-ok form.
ServicesOK(d) == "services" \in d.keys /\ d.servicesIsMap

\* delete(services, name)
RemoveEntry(m, name) == [n \in DOMAIN m \ {name} |-> m[n]]

\* svc["enabled"] != nil
EnabledSet(svc) == svc.enabled \notin {"absent", "null"}

\* svc["enabled"].(bool) panics on a value that is no boolean.
EnabledIsBool(svc) == svc.enabled \in {"true", "false"}

\* The test of cmd.go:68 with the negation lost.
IsDisabledNotNegated(svc) == EnabledSet(svc) /\ svc.enabled = "true"

\* svc["enabled"] != nil && !svc["enabled"].(bool)
IsDisabled(svc) == EnabledSet(svc) /\ svc.enabled = "false"

\* The service with its `octocompose` key left in place.
StripServiceNothing(svc) == svc

\* delete(svc, "octocompose")
StripService(svc) == [svc EXCEPT !.keys = @ \ {"octocompose"}]

\* The test of cmd.go:75 without the check of the Docker pointer.
ResolvableAnyEntry(repo, name) == name \in DOMAIN repo

\* svcRepo, ok := repo.Services[name]; ok && svcRepo.Docker != nil
Resolvable(repo, name) == name \in DOMAIN repo /\ repo[name].hasDocker

\* The image reference with the ":" left out when the tag is empty.
DockerImageNoEmptyTag(d) ==
    d.Registry \o <<"/">> \o d.Image
        \o (IF d.Tag = <<>> THEN <<>> ELSE <<":">> \o d.Tag)

\* svcRepo.Docker.Registry + "/" + svcRepo.Docker.Image + ":" + svcRepo.Docker.Tag
DockerImage(d) == d.Registry \o <<"/">> \o d.Image \o <<":">> \o d.Tag

\* svcRepo.Docker.Command != nil
OverwritesCommand(d) == ~d.Command.isNil

\* svcRepo.Docker.Entrypoint != ""
OverwritesEntrypoint(d) == d.Entrypoint # <<>>

\* The body of the true branch at cmd.go:76-84.
ResolveService(svc, d) ==
    LET a == [svc EXCEPT !.image = DockerImage(d),
                         !.keys = @ \cup {"image"}]
        b == IF OverwritesCommand(d)
             THEN [a EXCEPT !.command = d.Command.elems,
                            !.keys = @ \cup {"command"}]
             ELSE a
    IN  IF OverwritesEntrypoint(d)
        THEN [b EXCEPT !.entrypoint = d.Entrypoint,
                       !.keys = @ \cup {"entrypoint"}]
        ELSE b

\* A `break` in the place of the `continue`: nothing is left to visit.
BreakRange(rest) == <<>>

\* What is left to visit after the `continue` at cmd.go:70.
ContinueRange(rest) == rest

\* One iteration of the range loop, for a name still in the map.
VisitService(services, repo, name) ==
    LET svc == services[name] IN
    IF ~svc.isMap \/ (EnabledSet(svc) /\ ~EnabledIsBool(svc))
    THEN [panic |-> TRUE, skip |-> FALSE, services |-> services]
    ELSE IF IsDisabled(svc)
    THEN [panic |-> FALSE, skip |-> TRUE,
          services |-> RemoveEntry(services, name)]
    ELSE IF Resolvable(repo, name)
    THEN [panic |-> FALSE, skip |-> FALSE,
          services |-> [services EXCEPT
              ![name] = ResolveService(StripService(svc), repo[name].Docker)]]
    ELSE [panic |-> FALSE, skip |-> FALSE,
          services |-> RemoveEntry(services, name)]

\* for name := range services: the names are produced in the order `order`,
\* a name deleted before it is reached is not produced.
RECURSIVE RangeServices(_, _, _)
RangeServices(services, repo, order) ==
    IF order = <<>> THEN [panic |-> FALSE, services |-> services]
    ELSE IF Head(order) \notin DOMAIN services
    THEN RangeServices(services, repo, Tail(order))
    ELSE LET r == VisitService(services, repo, Head(order)) IN
         IF r.panic THEN [panic |-> TRUE, services |-> r.services]
         ELSE RangeServices(r.services, repo,
                  IF r.skip THEN ContinueRange(Tail(order)) ELSE Tail(order))

\* prepareConfig(logger, data): `data` is the map after the call (it is
\* mutated in place), `doc` the map returned (nil with an error).
PrepareConfig(d, order) ==
    LET repo == ParseRepo(d)
        d1 == DeleteKeys(d, ControlKeys)
    IN  IF repo.err
        THEN [err |-> "parse", data |-> d, doc |-> NilDoc]
        ELSE IF ~ServicesOK(d1)
        THEN [err |-> "services", data |-> d1, doc |-> NilDoc]
        ELSE LET r == RangeServices(d1.services, repo.Services, order)
                 d2 == [d1 EXCEPT !.services = r.services]
             IN  IF r.panic
                 THEN [err |-> "panic", data |-> d2, doc |-> NilDoc]
                 ELSE [err |-> "nil", data |-> d2, doc |-> d2]

\* The orders in which a range over the services of d may produce the names.
RangeOrders(d) == Perms(DOMAIN d.services)

NoReturn == [err |-> "none", doc |-> NilDoc]
Returned(r) == [err |-> r.err, doc |-> r.doc]

(***************************************************************************)
(* The transform on its own: prepareConfig applied to a document, and then *)
(* applied a second time, to the same map or to a copy of the input.       *)
(***************************************************************************)
Override == [kind |-> "list", elems |-> <<"podman", "compose">>]

TransformDocs ==
    { Doc({"name", "services", "repos", "version"} \cup extra, "demo", TRUE,
          svcs, repos, IF "octoctl" \in extra THEN Override ELSE NoOverride) :
        extra \in SUBSET {"configs", "octoctl"},
        svcs \in Maps(ServiceDefs, FewServiceDefs),
        repos \in Maps(RepoEntries, RepoEntries) }
    \cup { Doc(ks, "demo", TRUE, svcs, EmptyMap, NoOverride) :
             ks \in { {"name", "services"}, {"name", "services", "configs"} },
             svcs \in Maps(FewServiceDefs, FewServiceDefs) }
    \cup { Doc(ks, "demo", FALSE, EmptyMap, repos, NoOverride) :
             ks \in { {"name", "repos"}, {"name", "repos", "services"},
                      {"name", "repos", "services", "configs"} },
             repos \in Maps(RepoEntries, {}) }

NoInvocation ==
    [cmd |-> "none", dryRun |-> FALSE, follow |-> FALSE, args |-> <<>>,
     logLevel |-> "info"]

NoFile == [state |-> "none", doc |-> NilDoc]
NoResult == [kind |-> "none", code |-> 0]

\* The two invocations that share a project identifier.
Writers == {"first", "second"}

\* No invocation is inside writeConfig.
NoRace ==
    [at |-> [w \in Writers |-> "idle"], found |-> [w \in Writers |-> FALSE],
     doc |-> [w \in Writers |-> NilDoc], last |-> "none"]

Idle ==
    /\ stdinOK = TRUE
    /\ inv = NoInvocation
    /\ projectID = ""
    /\ composeCommand = <<>>
    /\ composeFilePath = ""
    /\ cacheFile = NoFile
    /\ execArgs = <<>>
    /\ extResult = NoResult
    /\ exitCode = -1
    /\ crashed = FALSE
    /\ steps = <<>>
    /\ race = NoRace

pipeline == <<stdinOK, inv, projectID, composeCommand, composeFilePath,
              cacheFile, execArgs, extResult, exitCode, crashed, steps>>

InitTransform ==
    /\ pc = "enter"
    /\ input \in TransformDocs
    /\ data = input
    /\ ret = NoReturn
    /\ ret1 = NoReturn
    /\ fresh = FALSE
    /\ Idle

\* prepareConfig(logger, data)
FirstCall ==
    /\ pc = "enter"
    /\ \E order \in RangeOrders(data) :
         LET r == PrepareConfig(data, order) IN
         /\ data' = r.data
         /\ ret' = Returned(r)
         /\ ret1' = Returned(r)
    /\ pc' = "once"
    /\ UNCHANGED <<race, input, fresh, pipeline>>

\* prepareConfig again, handed the map the first call was handed.
SecondCallSameMap ==
    /\ pc = "once"
    /\ ret1.err # "panic"
    /\ \E order \in RangeOrders(data) :
         LET r == PrepareConfig(data, order) IN
         /\ data' = r.data
         /\ ret' = Returned(r)
    /\ fresh' = FALSE
    /\ pc' = "twice"
    /\ UNCHANGED <<race, input, ret1, pipeline>>

\* prepareConfig again, handed another map decoded from the same input.
SecondCallOwnCopy ==
    /\ pc = "once"
    /\ ret1.err # "panic"
    /\ \E order \in RangeOrders(input) :
         ret' = Returned(PrepareConfig(input, order))
    /\ fresh' = TRUE
    /\ pc' = "twice"
    /\ UNCHANGED <<race, input, data, ret1, pipeline>>

NextTransform == FirstCall \/ SecondCallSameMap \/ SecondCallOwnCopy

SpecTransform == InitTransform /\ [][NextTransform]_vars

(***************************************************************************)
(* Properties of the transform.                                            *)
(***************************************************************************)
Returns == pc = "once" /\ ret.err = "nil"

InServices == DOMAIN input.services
OutServices == DOMAIN ret.doc.services

HasDockerRef(n) == n \in DOMAIN input.repos /\ input.repos[n].hasDocker

\* C1: when prepareConfig returns successfully, no service whose `enabled`
\* is the boolean false is a key of the output services, whether or not the
\* registry has an entry, with or without a Docker reference, for its name.
C1_DisabledDropped ==
    Returns =>
        \A n \in InServices :
            (input.services[n].isMap /\ input.services[n].enabled = "false")
                => n \notin OutServices

\* A disabled service whose name the registry resolves, beside one that is
\* kept, after a successful return.
C1_Witness ==
    /\ Returns
    /\ \E n \in InServices :
         /\ input.services[n].enabled = "false"
         /\ HasDockerRef(n)
         /\ n \notin OutServices
    /\ OutServices # {}

\* C2: when prepareConfig returns successfully, no service whose name has no
\* registry entry, or whose entry has a null Docker reference, is a key of
\* the output services, in whatever order the services were visited.
C2_UnresolvedDropped ==
    Returns =>
        \A n \in InServices : ~HasDockerRef(n) => n \notin OutServices

\* Two services, one without a registry entry or with an entry without a
\* Docker reference, the other resolved and kept.
C2_Witness ==
    /\ Returns
    /\ Cardinality(InServices) = 2
    /\ \E n \in InServices :
         /\ n \in DOMAIN input.repos
         /\ ~input.repos[n].hasDocker
         /\ input.services[n].enabled # "false"
         /\ n \notin OutServices
    /\ OutServices # {}

\* C3: a service whose `enabled` is true or omitted and whose name has a
\* registry entry with a Docker reference is in the output, and its image is
\* exactly registry + "/" + image + ":" + tag of that entry, whatever image
\* the input carried and also when a component is the empty string.
C3_ImageResolved ==
    Returns =>
        \A n \in InServices :
            (/\ input.services[n].isMap
             /\ input.services[n].enabled \in {"true", "absent"}
             /\ HasDockerRef(n))
            => /\ n \in OutServices
               /\ "image" \in ret.doc.services[n].keys
               /\ ret.doc.services[n].image =
                      input.repos[n].Docker.Registry \o <<"/">>
                          \o input.repos[n].Docker.Image \o <<":">>
                          \o input.repos[n].Docker.Tag

\* A kept service that carried an image of its own, resolved by an entry
\* with an empty registry and an empty tag.
C3_Witness ==
    /\ Returns
    /\ \E n \in OutServices :
         /\ "image" \in input.services[n].keys
         /\ input.repos[n].Docker.Tag = <<>>
         /\ ret.doc.services[n].image = <<"/", "app", ":">>

\* C4: when prepareConfig returns successfully, the output has none of the
\* top-level keys configs, octoctl, repos, and no service left in the output
\* has an octocompose key.
C4_ControlKeysStripped ==
    Returns =>
        /\ ret.doc.keys \cap {"configs", "octoctl", "repos"} = {}
        /\ \A n \in OutServices : "octocompose" \notin ret.doc.services[n].keys

\* An input with all three keys and a kept service that carried octocompose.
C4_Witness ==
    /\ Returns
    /\ {"configs", "octoctl", "repos"} \subseteq input.keys
    /\ \E n \in OutServices : "octocompose" \in input.services[n].keys

\* C5: for a kept service, the command is overwritten only if the registry
\* command is a non-empty list and the entrypoint only if the registry
\* entrypoint is a non-empty string; with an empty registry command or an
\* empty registry entrypoint the value of the input service is unchanged.
C5_EmptyDoesNotOverwrite ==
    Returns =>
        \A n \in OutServices :
            LET d == input.repos[n].Docker
                old == input.services[n]
                new == ret.doc.services[n]
            IN  /\ d.Command.elems = <<>> =>
                       /\ new.command = old.command
                       /\ ("command" \in new.keys) = ("command" \in old.keys)
                /\ d.Entrypoint = <<>> =>
                       /\ new.entrypoint = old.entrypoint
                       /\ ("entrypoint" \in new.keys)
                              = ("entrypoint" \in old.keys)

ArgTokens == {"web", "--"}

RECURSIVE SeqsUpTo(_, _)
SeqsUpTo(S, n) ==
    IF n = 0 THEN { <<>> }
    ELSE SeqsUpTo(S, n - 1)
         \cup { Append(q, x) : q \in { r \in SeqsUpTo(S, n - 1) : Len(r) = n - 1 },
                               x \in S }

Invocation(c, dry, fol, as, lvl) ==
    [cmd |-> c, dryRun |-> dry, follow |-> fol, args |-> as, logLevel |-> lvl]

Invocations ==
    { Invocation(c, dry, FALSE, <<>>, "info") :
        c \in {"start", "stop", "restart"}, dry \in BOOLEAN }
    \cup { Invocation(c, FALSE, FALSE, <<>>, lvl) :
             c \in {"status", "show"}, lvl \in {"info", "bogus"} }
    \cup { Invocation("logs", FALSE, fol, as, "info") :
             fol \in BOOLEAN, as \in SeqsUpTo(ArgTokens, MaxArgs) }
    \cup { Invocation("compose", FALSE, FALSE, as, "info") :
             as \in SeqsUpTo(ArgTokens, MaxArgs) }

\* The values under octoctl.command: no such key, a value that is no list
\* of strings, a list of strings.
Overrides ==
    { NoOverride, [kind |-> "bad", elems |-> <<>>], Override,
      [kind |-> "list", elems |-> <<>>] }

PipelineServices ==
    Maps({ Service("true", {"octocompose", "command"}), Service("string", {}) },
         { Service("false", {}) })

PipelineRepos ==
    Maps({ [hasDocker |-> TRUE, Docker |-> d] : d \in DockerRefs }, {})

PipelineDocs ==
    { Doc(nm \cup sv \cup rp \cup oc \cup {"configs"}, "demo",
          "services" \in sv /\ isMap,
          IF "services" \in sv /\ isMap THEN svcs ELSE EmptyMap,
          IF rp = {} THEN EmptyMap ELSE repos,
          IF oc = {} THEN NoOverride ELSE over) :
        nm \in { {}, {"name"} }, sv \in { {}, {"services"} },
        rp \in { {}, {"repos"} }, oc \in { {}, {"octoctl"} },
        isMap \in BOOLEAN, svcs \in PipelineServices,
        repos \in PipelineRepos, over \in Overrides }

StaleFile == [state |-> "stale", doc |-> NilDoc]

Init ==
    /\ pc = "main"
    /\ \/ stdinOK = TRUE /\ input \in PipelineDocs
       \/ stdinOK = FALSE /\ input = NilDoc
    /\ inv \in Invocations
    /\ data = NilDoc
    /\ ret = NoReturn
    /\ ret1 = NoReturn
    /\ fresh = FALSE
    /\ projectID = ""
    /\ composeCommand = <<>>
    /\ composeFilePath = ""
    /\ cacheFile \in {NoFile, StaleFile}
    /\ execArgs = <<>>
    /\ extResult = NoResult
    /\ exitCode = -1
    /\ crashed = FALSE
    /\ steps = <<>>
    /\ race = NoRace

\* The status the operating system reports for os.Exit(code).
ExitStatus(code) == code % 256

\* os.Exit(code)
Exit(code) ==
    /\ pc' = "exited"
    /\ exitCode' = ExitStatus(code)
    /\ crashed' = FALSE

\* An unrecovered Go panic: the runtime prints the trace and exits with 2.
Panic ==
    /\ pc' = "exited"
    /\ exitCode' = 2
    /\ crashed' = TRUE

\* log.New(log.WithLevel(cmd.String("log-level"))); an error is returned
\* to cmd.Run and main exits with 1.
NewLogger ==
    /\ pc = "main"
    /\ IF inv.logLevel = "info"
       THEN pc' = "read" /\ UNCHANGED <<exitCode, crashed>>
       ELSE Exit(1)
    /\ UNCHANGED <<race, input, stdinOK, data, ret, ret1, fresh, inv, projectID,
                   composeCommand, composeFilePath, cacheFile, execArgs,
                   extResult, steps>>

\* configData, err := readConfig(logger)
ReadConfig ==
    /\ pc = "read"
    /\ steps' = Append(steps, "read")
    /\ IF stdinOK
       THEN data' = input /\ pc' = "name" /\ UNCHANGED <<exitCode, crashed>>
       ELSE data' = data /\ Exit(1)
    /\ UNCHANGED <<race, input, stdinOK, ret, ret1, fresh, inv, projectID,
                   composeCommand, composeFilePath, cacheFile, execArgs,
                   extResult>>

\* projectID := configData["name"].(string)
ReadProjectID ==
    /\ pc = "name"
    /\ IF "name" \in data.keys
       THEN /\ projectID' = data.name
            /\ pc' = "command"
            /\ UNCHANGED <<exitCode, crashed>>
       ELSE projectID' = projectID /\ Panic
    /\ UNCHANGED <<race, input, stdinOK, data, ret, ret1, fresh, inv,
                   composeCommand, composeFilePath, cacheFile, execArgs,
                   extResult, steps>>

\* config.ParseSlice([]string{"octoctl"}, "command", configData, &tmpCmd)
ParseOverride(d) ==
    IF "octoctl" \in d.keys /\ d.octoctl.kind = "list"
    THEN [err |-> FALSE, elems |-> d.octoctl.elems]
    ELSE [err |-> TRUE, elems |-> <<>>]

DefaultCommand == <<"docker", "compose">>

\* The command vector read from the map after the control keys were deleted.
ResolveCommandAfterDelete(d) ==
    IF ParseOverride(DeleteKeys(d, ControlKeys)).err
    THEN DefaultCommand
    ELSE ParseOverride(DeleteKeys(d, ControlKeys)).elems

\* cmd.go:148-153
ResolveCommand(d) ==
    IF ParseOverride(d).err THEN DefaultCommand ELSE ParseOverride(d).elems

ParseCommand ==
    /\ pc = "command"
    /\ composeCommand' = ResolveCommand(data)
    /\ pc' = "prepare"
    /\ UNCHANGED <<race, input, stdinOK, data, ret, ret1, fresh, inv, projectID,
                   composeFilePath, cacheFile, execArgs, extResult, exitCode,
                   crashed, steps>>

\* configData, err = prepareConfig(logger, configData)
Prepare ==
    /\ pc = "prepare"
    /\ steps' = Append(steps, "transform")
    /\ \E order \in RangeOrders(data) :
         LET r == PrepareConfig(data, order) IN
         /\ data' = r.data
         /\ ret' = Returned(r)
         /\ ret1' = Returned(r)
         /\ IF r.err = "nil"
            THEN pc' = "write" /\ UNCHANGED <<exitCode, crashed>>
            ELSE IF r.err = "panic" THEN Panic ELSE Exit(1)
    /\ UNCHANGED <<race, input, stdinOK, fresh, inv, projectID, composeCommand,
                   composeFilePath, cacheFile, execArgs, extResult>>

\* filepath.Join(userCacheDir, "octocompose", projectID, "compose.yaml")
CachePath(id) ==
    CASE id = "demo" -> "~/.cache/octocompose/demo/compose.yaml"
      [] OTHER -> "~/.cache/octocompose/compose.yaml"

\* The steps of writeConfig that can fail, in the order of the code.
WriteFailures == {"codec", "marshal", "cachedir", "mkdir", "remove", "write"}

\* The file at the cache path after writeConfig failed at `f` or, with
\* "none", succeeded: the stale file is removed before the write, and a
\* failed write leaves no file or a truncated one.
FilesAfterWrite(file, doc, f) ==
    IF f = "none" THEN { [state |-> "written", doc |-> doc] }
    ELSE IF f = "write" THEN { NoFile, [state |-> "partial", doc |-> NilDoc] }
    ELSE { file }

\* composeFilePath, err := writeConfig(logger, configData, projectID)
WriteConfig ==
    /\ pc = "write"
    /\ steps' = Append(steps, "write")
    /\ \E f \in WriteFailures \cup {"none"} :
         /\ f = "remove" => cacheFile.state # "none"
         /\ cacheFile' \in FilesAfterWrite(cacheFile, ret.doc, f)
         /\ IF f = "none"
            THEN /\ composeFilePath' = CachePath(projectID)
                 /\ pc' = "action"
                 /\ UNCHANGED <<exitCode, crashed>>
            ELSE composeFilePath' = composeFilePath /\ Exit(1)
    /\ UNCHANGED <<race, input, stdinOK, data, ret, ret1, fresh, inv, projectID,
                   composeCommand, execArgs, extResult>>

\* How execCmd.Run() can end: the command exits with 0, exits with another
\* code, cannot be started, or is killed by a signal.
ExtOutcomes ==
    { [kind |-> "ok", code |-> 0], [kind |-> "nostart", code |-> 0],
      [kind |-> "signal", code |-> 0] }
    \cup { [kind |-> "exit", code |-> c] : c \in 1..MaxExtExit }

\* ExitCode() taken to be 0 when there is no exit code to report.
ProcessExitCodeZero(out) == IF out.kind = "exit" THEN out.code ELSE 0

\* execCmd.ProcessState.ExitCode(): -1 for a nil ProcessState and for a
\* process ended by a signal.
ProcessExitCode(out) == IF out.kind = "exit" THEN out.code ELSE 0 - 1

\* runCmd(ctx, args); when it returns nil the action, cmd.Run and main
\* return and the process exits with 0.
RunCmd(args) ==
    /\ steps' = Append(steps, "execute")
    /\ execArgs' = args
    /\ \E out \in ExtOutcomes :
         /\ extResult' = out
         /\ IF out.kind = "ok" THEN Exit(0) ELSE Exit(ProcessExitCode(out))
    /\ UNCHANGED <<race, input, stdinOK, data, ret, ret1, fresh, inv, projectID,
                   composeCommand, composeFilePath, cacheFile>>

\* args2 in runCompose
ComposeArgv(command, path, args) == command \o <<"-f", path>> \o args

\* runCompose(ctx, args)
RunCompose(args) == RunCmd(ComposeArgv(composeCommand, composeFilePath, args))

StartArgs(dryRun) ==
    IF dryRun THEN <<"up", "-d", "--dry-run">> ELSE <<"up", "-d">>

StopArgs(dryRun) == IF dryRun THEN <<"down", "--dry-run">> ELSE <<"down">>

RestartArgs(dryRun) ==
    IF dryRun THEN <<"restart", "--dry-run">> ELSE <<"restart">>

\* The arguments of logs with the flag after the positional arguments.
LogsArgsFlagLast(follow, args) ==
    <<"logs">> \o args \o (IF follow THEN <<"--follow">> ELSE <<>>)

LogsArgs(follow, args) ==
    LET a == IF follow THEN <<"logs", "--follow">> ELSE <<"logs">>
    IN  IF Len(args) > 0 THEN a \o args ELSE a

StatusArgs == <<"ps", "-a">>

ShowArgs == <<"config">>

\* slices.Index(s, v): the first index of v in s, from 0, or -1.
SlicesIndex(s, v) ==
    IF \E i \in 1..Len(s) : s[i] = v
    THEN (CHOOSE i \in 1..Len(s) :
              s[i] = v /\ \A j \in 1..(i - 1) : s[j] # v) - 1
    ELSE 0 - 1

\* s[from:]
SliceFrom(s, from) == SubSeq(s, from + 1, Len(s))

\* The arguments composeCmd hands to runCompose.
ComposeArgs(args) ==
    LET idx == SlicesIndex(args, "--")
    IN  IF idx # 0 - 1 THEN SliceFrom(args, idx + 1) ELSE <<"compose">>

StartAction == pc = "action" /\ inv.cmd = "start" /\ RunCompose(StartArgs(inv.dryRun))

StopAction == pc = "action" /\ inv.cmd = "stop" /\ RunCompose(StopArgs(inv.dryRun))

RestartAction ==
    pc = "action" /\ inv.cmd = "restart" /\ RunCompose(RestartArgs(inv.dryRun))

LogsAction ==
    pc = "action" /\ inv.cmd = "logs" /\ RunCompose(LogsArgs(inv.follow, inv.args))

ComposeAction ==
    pc = "action" /\ inv.cmd = "compose" /\ RunCompose(ComposeArgs(inv.args))

StatusAction == pc = "action" /\ inv.cmd = "status" /\ RunCompose(StatusArgs)

ShowAction == pc = "action" /\ inv.cmd = "show" /\ RunCompose(ShowArgs)

Next ==
    \/ NewLogger
    \/ ReadConfig
    \/ ReadProjectID
    \/ ParseCommand
    \/ Prepare
    \/ WriteConfig
    \/ StartAction
    \/ StopAction
    \/ RestartAction
    \/ LogsAction
    \/ ComposeAction
    \/ StatusAction
    \/ ShowAction

Spec == Init /\ [][Next]_vars

(***************************************************************************)
(* Properties of the dispatch and of the exit status.                      *)
(***************************************************************************)
Executed == extResult.kind # "none"

DryRun(subArgs) == IF inv.dryRun THEN Append(subArgs, "--dry-run") ELSE subArgs

\* The sub-arguments of the table of sub-commands.
TableSubArgs ==
    CASE inv.cmd = "start" -> DryRun(<<"up", "-d">>)
      [] inv.cmd = "stop" -> DryRun(<<"down">>)
      [] inv.cmd = "restart" -> DryRun(<<"restart">>)
      [] inv.cmd = "status" -> <<"ps", "-a">>
      [] inv.cmd = "show" -> <<"config">>
      [] inv.cmd = "logs" ->
            <<"logs">> \o (IF inv.follow THEN <<"--follow">> ELSE <<>>)
                \o inv.args
      [] OTHER -> <<>>

\* C7: for start, stop, restart, status, show and logs the argument vector
\* handed to the external process is the command vector, then "-f" and the
\* compose file path, then the sub-arguments of the table: `--dry-run` last
\* iff the flag is set, and for logs `--follow` iff the flag is set followed
\* by the positional arguments in their order.
C7_DispatchedArgs ==
    (Executed /\ inv.cmd \in {"start", "stop", "restart", "status", "show", "logs"})
        => execArgs = composeCommand \o <<"-f", composeFilePath>> \o TableSubArgs

\* logs --follow with two positional arguments was dispatched.
C7_Witness ==
    /\ Executed
    /\ inv.cmd = "logs"
    /\ inv.follow
    /\ Len(inv.args) = 2
    /\ inv.args[1] # inv.args[2]
    /\ composeFilePath = CachePath("demo")

RECURSIVE AfterSeparator(_)
\* The arguments that follow the first "--", none when there is no "--".
AfterSeparator(args) ==
    IF args = <<>> THEN <<>>
    ELSE IF Head(args) = "--" THEN Tail(args)
    ELSE AfterSeparator(Tail(args))

\* C8: for compose, the sub-arguments after "-f" and the path are the
\* invocation's arguments that follow the first "--", and none when the
\* invocation holds no "--".
C8_ComposeArgsAfterSeparator ==
    (Executed /\ inv.cmd = "compose")
        => execArgs = composeCommand \o <<"-f", composeFilePath>>
                          \o AfterSeparator(inv.args)

\* C9: the exit code is 0 when the external command ran and succeeded, the
\* external command's exit code when it failed, never 0 when it failed or
\* could not be started, and 1 when the invocation ended in an internal
\* step, before the external command was run.
C9_ExitCodes ==
    pc = "exited" =>
        /\ extResult.kind = "ok" => exitCode = 0
        /\ extResult.kind = "exit" => exitCode = extResult.code
        /\ extResult.kind \in {"exit", "nostart", "signal"} => exitCode # 0
        /\ extResult.kind = "none" => exitCode = 1

\* The input lacks what the transform requires.
MissingField ==
    \/ "services" \notin input.keys
    \/ ~input.servicesIsMap
    \/ "name" \notin input.keys

\* C10: with no `services` key, a `services` that is no mapping, or no
\* `name`, the invocation ends with exit status 1 through a reported error,
\* not a crash, without writing the compose file or running the command.
C10_MissingFieldIsAnError ==
    (pc = "exited" /\ stdinOK /\ MissingField) =>
        /\ exitCode = 1
        /\ ~crashed
        /\ ~Executed
        /\ cacheFile \in {NoFile, StaleFile}

(***************************************************************************)
(* Properties of the command vector and of the order of the steps.         *)
(***************************************************************************)

\* The command vector the raw configuration asks for.
RawCommandVector ==
    IF "octoctl" \in input.keys /\ input.octoctl.kind = "list"
    THEN input.octoctl.elems
    ELSE <<"docker", "compose">>

\* C12: the command vector used for dispatch is the list of strings under
\* octoctl.command of the raw configuration when that list is present and
\* parsable, and ["docker", "compose"] otherwise; the override of the input
\* takes effect although `octoctl` is not in the document that is written.
C12_CommandVector ==
    /\ pc \in {"prepare", "write", "action"} => composeCommand = RawCommandVector
    /\ Executed =>
           /\ composeCommand = RawCommandVector
           /\ SubSeq(execArgs, 1, Len(RawCommandVector)) = RawCommandVector
           /\ execArgs[Len(RawCommandVector) + 1] = "-f"
           /\ "octoctl" \notin cacheFile.doc.keys

\* A command was dispatched with the override of the input, and the
\* document written has no `octoctl` key.
C12_Witness ==
    /\ Executed
    /\ "octoctl" \in input.keys
    /\ input.octoctl = Override
    /\ execArgs[1] = "podman"
    /\ cacheFile.state = "written"
    /\ "octoctl" \notin cacheFile.doc.keys

Pipeline == <<"read", "transform", "write", "execute">>

\* C13: the steps are taken in the order read, transform, write, execute,
\* each at most once; the external command is started only after the read,
\* the transform and the write succeeded, with the path writeConfig
\* returned after "-f"; a step that fails ends the invocation with a
\* non-zero exit status and no later step is taken.
C13_StepsInOrder ==
    /\ Len(steps) <= Len(Pipeline)
    /\ steps = SubSeq(Pipeline, 1, Len(steps))
    /\ ("read" \in {steps[i] : i \in 1..Len(steps)} /\ ~stdinOK) =>
           pc = "exited" /\ Len(steps) = 1 /\ exitCode > 0
    /\ (Len(steps) >= 2 /\ ret.err # "nil") =>
           pc = "exited" /\ Len(steps) = 2 /\ exitCode > 0
    /\ (Len(steps) >= 3 /\ cacheFile.state # "written") =>
           pc = "exited" /\ Len(steps) = 3 /\ exitCode > 0
    /\ (pc = "exited" /\ Len(steps) < Len(Pipeline)) =>
           exitCode > 0 /\ ~Executed /\ execArgs = <<>>
    /\ Executed =>
           /\ steps = Pipeline
           /\ stdinOK
           /\ ret.err = "nil"
           /\ cacheFile = [state |-> "written", doc |-> ret.doc]
           /\ composeFilePath = CachePath(projectID)
           /\ execArgs[Len(composeCommand) + 2] = composeFilePath
    /\ (pc = "exited" /\ Executed /\ extResult.kind # "ok") => exitCode > 0

\* The external command was started after the three steps and could not be
\* started, and the invocation ended with a non-zero status.
C13_Witness ==
    /\ pc = "exited"
    /\ steps = Pipeline
    /\ extResult.kind = "nostart"
    /\ exitCode = 255

(***************************************************************************)
(* Two invocations for the same project identifier inside writeConfig      *)
(* (cmd.go:118-130): each one stats the cache path, removes the file it    *)
(* found, and writes its document; the steps of the two interleave.        *)
(***************************************************************************)

\* The documents the two invocations have marshalled.
RaceDocs ==
    { Doc({"name", "services"}, "demo", TRUE, svcs, EmptyMap, NoOverride) :
        svcs \in { EmptyMap,
                   [n \in {"web"} |->
                       ResolveService(Service("true", {}),
                           [Registry |-> <<"reg.io">>, Image |-> <<"app">>,
                            Tag |-> <<"1.0">>, Command |-> NilSlice,
                            Entrypoint |-> <<>>])] } }

InitRace ==
    /\ pc = "write"
    /\ input = NilDoc
    /\ data = NilDoc
    /\ ret = NoReturn
    /\ ret1 = NoReturn
    /\ fresh = FALSE
    /\ stdinOK = TRUE
    /\ inv = NoInvocation
    /\ projectID = "demo"
    /\ composeCommand = DefaultCommand
    /\ composeFilePath = ""
    /\ cacheFile \in {NoFile, StaleFile}
    /\ execArgs = <<>>
    /\ extResult = NoResult
    /\ exitCode = -1
    /\ crashed = FALSE
    /\ steps = <<>>
    /\ \E docs \in [Writers -> RaceDocs] :
         race = [at |-> [w \in Writers |-> "stat"],
                 found |-> [w \in Writers |-> FALSE],
                 doc |-> docs, last |-> "none"]

rest == <<pc, input, stdinOK, data, ret, ret1, fresh, inv, projectID,
          composeCommand, composeFilePath, execArgs, extResult, exitCode,
          crashed, steps>>

\* _, err := os.Stat(composeFilePath); err == nil
StatFile(w) ==
    /\ race.at[w] = "stat"
    /\ race' = [race EXCEPT
           !.found[w] = cacheFile.state # "none",
           !.at[w] = IF cacheFile.state # "none" THEN "remove" ELSE "write"]
    /\ UNCHANGED <<cacheFile, rest>>

\* os.Remove(composeFilePath): an error when the file is no longer there,
\* and writeConfig returns it.
RemoveFile(w) ==
    /\ race.at[w] = "remove"
    /\ IF cacheFile.state = "none"
       THEN /\ race' = [race EXCEPT !.at[w] = "failed"]
            /\ UNCHANGED cacheFile
       ELSE /\ race' = [race EXCEPT !.at[w] = "write"]
            /\ cacheFile' = NoFile
    /\ UNCHANGED rest

\* os.WriteFile(composeFilePath, b, 0600), which creates or truncates.
WriteFile(w) ==
    /\ race.at[w] = "write"
    /\ cacheFile' = [state |-> "written", doc |-> race.doc[w]]
    /\ race' = [race EXCEPT !.at[w] = "done", !.last = w]
    /\ UNCHANGED rest

NextRace ==
    \/ \E w \in Writers : StatFile(w)
    \/ \E w \in Writers : RemoveFile(w)
    \/ \E w \in Writers : WriteFile(w)

SpecRace == InitRace /\ [][NextRace]_vars

\* C11: with the stat, remove and write steps of two invocations for one
\* project interleaved in any order, neither invocation fails, and when both
\* are through the cache file holds the complete document of the invocation
\* that wrote last.
C11_BothWritersSucceed ==
    /\ \A w \in Writers : race.at[w] # "failed"
    /\ (\A w \in Writers : race.at[w] = "done") =>
           cacheFile = [state |-> "written", doc |-> race.doc[race.last]]
====
